---- MODULE Spec2Model ----
(***************************************************************************)
(* A model of junkie's suspension-aware dependency-injection engine,       *)
(* AsyncJunkie (src/junkie/_async_junkie.py).                              *)
(*                                                                         *)
(* The engine object holds four mutable attributes that every coroutine    *)
(* of the class reads and writes through `self`:                           *)
(*   _instances_by_name        a reference to the current cache (a dict)   *)
(*   _instances_by_name_stack  a stack of references to caches             *)
(*   _exit_stack               a reference to an AsyncExitStack            *)
(*   _instantiation_stack      the factories under construction            *)
(* Dicts and exit stacks are objects: they live in two heaps (dicts,       *)
(* exit_stacks) and the attributes hold indices into them, so that         *)
(* aliasing is what it is in the program.                                  *)
(*                                                                         *)
(* Every coroutine of the class is a kind of frame; a task is a stack of   *)
(* frames (ctl) and a return register (ret).  One action models one        *)
(* coroutine's code from one await to the next.  A task keeps the event    *)
(* loop (running) until it reaches a point where foreign code may suspend: *)
(* a resource's enter step, the caller's block, a resource's exit step.    *)
(***************************************************************************)
EXTENDS Integers, Sequences, FiniteSets, TLC

\* ------------------------------------------------------------------ bounds

\* build calls (async with engine.inject(...)) a task makes, one after the other
MaxCalls == 2

\* how many builds each of two concurrent callers opens
MaxConcurrentCalls == 1

\* ------------------------------------------------------- values and errors

NoName == "<None>"

None == [k |-> "none"]

Lit(v) == [k |-> "lit", v |-> v]

\* the value a parameter takes when the call leaves it unset
Default(p) == [k |-> "default", p |-> p]

Err(type, what, stack) == [type |-> type, what |-> what, stack |-> stack]

NoRet == [k |-> "none"]

Val(v) == [k |-> "val", v |-> v]

Exc(e) == [k |-> "exc", e |-> e]

\* ---------------------------------------------------------- finite mappings

EmptyMap == [x \in {} |-> None]

Put(m, key, v) == [x \in (DOMAIN m) \cup {key} |-> IF x = key THEN v ELSE m[x]]

RECURSIVE SeqToSet(_)
SeqToSet(s) == IF s = <<>> THEN {} ELSE {Head(s)} \cup SeqToSet(Tail(s))

Contains(s, x) == \E i \in 1..Len(s) : s[i] = x

RECURSIVE Reverse(_)
Reverse(s) == IF s = <<>> THEN <<>> ELSE Append(Reverse(Tail(s)), Head(s))

RECURSIVE SelectSeqBy(_, _)
SelectSeqBy(s, S) ==
    IF s = <<>> THEN <<>>
    ELSE IF Head(s) \in S THEN <<Head(s)>> \o SelectSeqBy(Tail(s), S)
         ELSE SelectSeqBy(Tail(s), S)

\* an OrderedDict as the sequence of its (key, value) items
Keys(od) == {od[i].n : i \in 1..Len(od)}

Values(od) == [i \in 1..Len(od) |-> od[i].v]

Get(od, key) == od[CHOOSE i \in 1..Len(od) : od[i].n = key].v

\* ------------------------------------------------ callables and registries
\* The callables a registry binds or a caller passes: their signatures as
\* inspect.signature reports them, and what calling them does.

PO == "POSITIONAL_ONLY"

PK == "POSITIONAL_OR_KEYWORD"

VP == "VAR_POSITIONAL"

KO == "KEYWORD_ONLY"

VK == "VAR_KEYWORD"

\* a parameter: its name, kind, whether it has a default, and its annotation
\* ("" for inspect.Parameter.empty, else the annotation's name)
P(name, kind, dflt, ann) == [name |-> name, kind |-> kind, dflt |-> dflt, ann |-> ann]

Arg(name) == P(name, PK, FALSE, "")

\* product: what the call returns ("plain" object, "cm" an object with
\* __aenter__/__aexit__, "coro" a coroutine object); raises: the body raises;
\* nested: the name the product's enter step builds in a build of its own on
\* the same engine (async with engine.inject(name): pass) before it yields
F(params, product, raises, nested, sig) ==
    [params |-> params, product |-> product, raises |-> raises, nested |-> nested, sig |-> sig]

Plain(params) == F(params, "plain", FALSE, NoName, TRUE)

BUILTINS == {"str", "int"}

FactoryIds ==
    {"fText", "Class", "async_test", "fSession", "fPool", "fBoom", "fJob", "fA", "fB",
     "fC", "fD", "fS1", "fS2", "fApp", "fKinds", "fPosOnly", "fVar", "fAnn", "fAnnB",
     "fUnres", "fNoSig", "fSuffix", "fQuiet", "fBadEnter"}

Factory(f) ==
    CASE f = "fText"      -> Plain(<<Arg("prefix"), Arg("suffix")>>)
      [] f = "Class"      -> Plain(<<Arg("prefix"), Arg("suffix")>>)
      [] f = "async_test" -> F(<<>>, "cm", FALSE, NoName, TRUE)
      [] f = "fSession"   -> F(<<Arg("conn")>>, "cm", FALSE, NoName, TRUE)
      [] f = "fPool"      -> F(<<>>, "cm", FALSE, "text", TRUE)
      [] f = "fBoom"      -> F(<<>>, "plain", TRUE, NoName, TRUE)
      [] f = "fJob"       -> F(<<>>, "coro", FALSE, NoName, TRUE)
      [] f = "fA"         -> Plain(<<Arg("b")>>)
      [] f = "fB"         -> Plain(<<Arg("a")>>)
      [] f = "fC"         -> Plain(<<Arg("text"), Arg("d")>>)
      [] f = "fD"         -> Plain(<<Arg("text"), Arg("c")>>)
      [] f = "fS1"        -> Plain(<<Arg("text")>>)
      [] f = "fS2"        -> Plain(<<Arg("text")>>)
      [] f = "fApp"       -> Plain(<<Arg("s1"), Arg("s2")>>)
      [] f = "fKinds"     -> Plain(<<Arg("prefix"), P("opt", PK, TRUE, ""),
                                     P("suffix", PK, TRUE, ""), P("args", VP, FALSE, ""),
                                     P("text", KO, FALSE, ""), P("kwargs", VK, FALSE, "")>>)
      [] f = "fPosOnly"   -> Plain(<<P("opt", PO, TRUE, ""), P("suffix", PO, TRUE, "")>>)
      [] f = "fVar"       -> Plain(<<Arg("prefix"), P("args", VP, FALSE, ""),
                                     P("kwargs", VK, FALSE, "")>>)
      [] f = "fAnn"       -> Plain(<<P("k", PK, FALSE, "Class"), P("note", PK, TRUE, "str")>>)
      [] f = "fAnnB"      -> Plain(<<P("n", PK, FALSE, "str")>>)
      [] f = "fUnres"     -> Plain(<<P("nope", PK, FALSE, "'Nope'")>>)
      [] f = "fNoSig"     -> F(<<>>, "plain", FALSE, NoName, FALSE)
      [] f = "fSuffix"    -> Plain(<<>>)
      [] f = "fQuiet"     -> F(<<>>, "cm", FALSE, NoName, TRUE)
      [] f = "fBadEnter"  -> F(<<>>, "cm", FALSE, NoName, TRUE)

\* the resource's exit step handles the error it is passed (its __aexit__
\* returns a true value)
Suppresses(f) == f = "fQuiet"

\* the resource's enter step raises
EnterRaises(f) == f = "fBadEnter"

\* callable(x) for a context value or a target
Fn(f) == [k |-> "fn", f |-> f]

Name(n) == [k |-> "str", v |-> n]

\* a set of names passed as one target
NameSet(names) == [k |-> "set", v |-> names]

\* a registry: a sequence of layers, the overlay first
BaseBindings ==
    [prefix |-> Lit("abc"), suffix |-> Lit("def"), text |-> Fn("fText"),
     conn |-> Fn("async_test"), session |-> Fn("fSession"), pool |-> Fn("fPool"),
     boom |-> Fn("fBoom"), job |-> Fn("fJob"), a |-> Fn("fA"), b |-> Fn("fB"),
     c |-> Fn("fC"), d |-> Fn("fD"), s1 |-> Fn("fS1"), s2 |-> Fn("fS2"),
     app |-> Fn("fApp"), quiet |-> Fn("fQuiet"), badenter |-> Fn("fBadEnter"),
     link |-> Fn("async_test")]

OverlayTest == [class |-> Fn("Class"), suffix |-> Lit("xyz")]

OverlayFactory == [suffix |-> Fn("fSuffix")]

\* bindings whose names are those of fKinds' and fVar's collectors
OverlayVariadic ==
    [args |-> [k |-> "seq", items |-> <<Lit("x")>>],
     kwargs |-> [k |-> "map", m |-> [extra |-> Lit("y")]]]

Registry(bindings) == <<bindings>>

\* registry.add(bindings): the overlay over the receiver, which is not changed
Add(registry, bindings) == <<bindings>> \o registry

\* name in registry
Has(registry, name) == \E i \in 1..Len(registry) : name \in DOMAIN registry[i]

\* registry[name]: the first layer that binds the name
Lookup(registry, name) ==
    registry[CHOOSE i \in 1..Len(registry) :
                /\ name \in DOMAIN registry[i]
                /\ \A j \in 1..(i - 1) : name \notin DOMAIN registry[j]][name]

TestContext == Registry(BaseBindings)

Overlays == {OverlayTest, OverlayFactory, OverlayVariadic}

\* what callers pass to inject
BaseTargets ==
    {<<>>,
     <<Name("text")>>, <<Name("prefix")>>, <<Name("conn")>>, <<Name("session")>>,
     <<Name("pool")>>, <<Name("boom")>>, <<Name("job")>>, <<Name("a")>>, <<Name("c")>>,
     <<Name("app")>>, <<Name("missing")>>,
     <<Fn("Class")>>, <<Fn("fKinds")>>, <<Fn("fPosOnly")>>, <<Fn("fVar")>>, <<Fn("fAnn")>>,
     <<Fn("fAnnB")>>, <<Fn("fUnres")>>, <<Fn("fNoSig")>>, <<Fn("str")>>,
     <<[k |-> "other", v |-> 42]>>,
     <<Name("text"), Name("prefix")>>, <<Name("text"), Name("text")>>,
     <<Name("conn"), Name("session")>>, <<Name("conn"), Name("boom")>>,
     <<Name("session"), Name("missing")>>, <<Name("pool"), Name("conn")>>,
     <<Name("text"), Name("pool")>>, <<Name("job"), Name("job"), Name("job")>>,
     <<Name("conn"), Name("a")>>, <<Fn("fAnn"), Name("k")>>, <<Name("s1"), Name("job")>>,
     <<Name("quiet")>>, <<Name("quiet"), Name("boom")>>, <<Name("conn"), Name("badenter")>>,
     <<NameSet({"text", "prefix"})>>,
     <<Name("pool"), Name("conn"), Fn("fPool"), Name("conn")>>,
     <<Name("conn"), Name("link")>>}

OverlayTargets ==
    {<<Name("text"), Name("prefix")>>, <<Name("class")>>, <<Fn("Class")>>,
     <<Name("suffix")>>, <<Name("text"), Fn("Class")>>, <<Fn("fKinds")>>}

TargetPool(registry) == IF registry = TestContext THEN BaseTargets ELSE OverlayTargets

\* what callers that run as concurrent tasks pass to inject
ConcurrentTargets ==
    {<<Name("session")>>, <<Name("text")>>, <<Name("text"), Name("missing")>>}

\* ------------------------------------------------------------- Python call
\* factory_function(*positional, **keyword): the binding of arguments to
\* the callee's parameters, [ok |-> FALSE] for the TypeError of a bad call.

Slots(params) == SelectSeq(params, LAMBDA p : p.kind \in {PO, PK})

HasKind(params, kind) == \E i \in 1..Len(params) : params[i].kind = kind

ByKeyword(params) == {params[i].name : i \in {j \in 1..Len(params) : params[j].kind \in {PK, KO}}}

Bind(params, pos, kw) ==
    LET slots    == Slots(params)
        n        == IF Len(pos) < Len(slots) THEN Len(pos) ELSE Len(slots)
        byPos    == {slots[i].name : i \in 1..n}
        extraPos == SubSeq(pos, n + 1, Len(pos))
        extraKw  == (DOMAIN kw) \ ByKeyword(params)
        named    == {params[i].name : i \in {j \in 1..Len(params) : params[j].kind \in {PO, PK, KO}}}
        given    == byPos \cup ((DOMAIN kw) \cap ByKeyword(params))
        dflt     == {params[i].name : i \in {j \in 1..Len(params) : params[j].dflt}}
        slotOf(p) == CHOOSE i \in 1..n : slots[i].name = p
        value(p) == IF p \in byPos THEN pos[slotOf(p)]
                    ELSE IF p \in DOMAIN kw THEN kw[p]
                    ELSE Default(p)
        bad      == \/ extraPos # <<>> /\ ~HasKind(params, VP)
                    \/ extraKw # {} /\ ~HasKind(params, VK)
                    \/ byPos \cap (DOMAIN kw) \cap ByKeyword(params) # {}
                    \/ (named \ given) \ dflt # {}
    IN  IF bad THEN [ok |-> FALSE, b |-> EmptyMap, star |-> <<>>, dstar |-> EmptyMap]
        ELSE [ok |-> TRUE, b |-> [p \in named |-> value(p)], star |-> extraPos,
              dstar |-> [x \in extraKw |-> kw[x]]]

\* -------------------------------------------------------------------- state

VARIABLES
    context,                  \* self._context: the registry
    instances_by_name,        \* self._instances_by_name: index into dicts (0: None)
    instances_by_name_stack,  \* self._instances_by_name_stack: indices into dicts
    exit_stack,               \* self._exit_stack: index into exit_stacks (0: None)
    instantiation_stack,      \* self._instantiation_stack: factories under construction
    dicts,                    \* the dict objects
    exit_stacks,              \* the AsyncExitStack objects: their registered resources
    awaited,                  \* the coroutine objects that were awaited
    nextId,                   \* the identity of the next object a factory returns
    ctl,                      \* per task: its stack of frames, the innermost last
    ret,                      \* per task: what the frame that just ended returned or raised
    running,                  \* the task that holds the event loop (0: none)
    ncalls,                   \* per task: the build calls it has made
    calls,                    \* history: the factory calls
    lookups,                  \* history: the lookups by name and their results
    entered,                  \* history: the resources entered
    released,                 \* history: the resources released
    outcomes                  \* history: the build calls as their callers saw them end

engine == <<context, instances_by_name, instances_by_name_stack, exit_stack,
            instantiation_stack, dicts, exit_stacks, awaited, nextId>>

history == <<calls, lookups, entered, released, outcomes>>

vars == <<engine, ctl, ret, running, ncalls, history>>

Tasks == DOMAIN ctl

Top(t) == ctl[t][Len(ctl[t])]

Pop(t) == SubSeq(ctl[t], 1, Len(ctl[t]) - 1)

\* the frames of task t with the innermost replaced by the frames fs
Replace(t, fs) == [ctl EXCEPT ![t] = Pop(t) \o fs]

At(t, fn) == /\ running \in {0, t}
             /\ ctl[t] # <<>>
             /\ Top(t).fn = fn

Butlast(s) == SubSeq(s, 1, Len(s) - 1)

\* the build task t is in: the exit stack of its innermost inject
RECURSIVE BuildOf(_)
BuildOf(frames) ==
    IF frames = <<>> THEN 0
    ELSE LET f == frames[Len(frames)]
         IN  IF f.fn = "inject" /\ f.es # 0 THEN f.es ELSE BuildOf(Butlast(frames))

CurBuild(t) == BuildOf(ctl[t])

\* ------------------------------------------------------------------- frames

\* an empty tuple, an empty dict
EmptyArgs == [k |-> "seq", items |-> <<>>]

EmptyKwargs == [k |-> "map", m |-> EmptyMap]

InjectFrame(targets, inner) ==
    [fn |-> "inject", pc |-> "start", targets |-> targets, inner |-> inner, es |-> 0,
     cache |-> 0, val |-> None, exc |-> NoRet, raised |-> NoRet, firstId |-> 0]

TupleFrame(targets) == [fn |-> "_build_tuple", targets |-> targets, instances |-> <<>>]

InstanceFrame(target) == [fn |-> "_build_instance", target |-> target]

NameFrame(name) == [fn |-> "_build_by_instance_name", name |-> name]

FactoryFrame(f, name) ==
    [fn |-> "_build_by_factory_function", pc |-> "start", f |-> f, name |-> name]

CallFrame(f, name) ==
    [fn |-> "_call_factory_function", pc |-> "start", f |-> f, name |-> name, es |-> 0,
     cm |-> None]

ParamsFrame(f) ==
    [fn |-> "_build_parameters", f |-> f, i |-> 1, waiting |-> FALSE,
     positional_params |-> <<>>, args |-> EmptyArgs, keyword_params |-> <<>>,
     kwargs |-> EmptyKwargs, positional_params_finished |-> FALSE]

EnterFrame(cm) == [fn |-> "__aenter__", pc |-> "start", cm |-> cm]

\* ---------------------------------------------------------- Junkie.__init__

InitEngine ==
    /\ context = TestContext
    /\ instances_by_name = 0
    /\ instances_by_name_stack = <<1>>
    /\ dicts = <<EmptyMap>>
    /\ exit_stack = 0
    /\ exit_stacks = <<>>
    /\ instantiation_stack = <<>>
    /\ awaited = {}
    /\ nextId = 1

InitTasks(T) ==
    /\ ctl = [t \in T |-> <<>>]
    /\ ret = [t \in T |-> NoRet]
    /\ ncalls = [t \in T |-> 0]
    /\ running = 0
    /\ calls = <<>>
    /\ lookups = <<>>
    /\ entered = <<>>
    /\ released = <<>>
    /\ outcomes = <<>>

Init == InitEngine /\ InitTasks({1})

\* ------------------------------------------------------------------ objects

\* what a call of factory f returns: an object with an identity of its own
Product(f, id) == [k |-> Factory(f).product, f |-> f, id |-> id]

\* what the enter step of the resource cm yields
Yielded(cm) == [k |-> "yielded", f |-> cm.f, id |-> cm.id]

\* what awaiting the coroutine object co gives
Result(co) == [k |-> "result", f |-> co.f, id |-> co.id]

\* hasattr(instance, "__aenter__")
HasAenter(instance) == instance.k = "cm"

\* await v: only an awaitable can be awaited, and a coroutine object only once
Await(v, done) ==
    IF v.k = "coro"
    THEN IF v.id \in done
         THEN Exc(Err("RuntimeError", "cannot reuse already awaited coroutine", <<>>))
         ELSE Val(Result(v))
    ELSE Exc(Err("TypeError", "object can't be used in 'await' expression", <<>>))

JunkieError(what) == Err("JunkieError", what, instantiation_stack)

\* a registry that reads a name from the base before the overlays
ContextValueBaseFirst(name) ==
    IF name \in DOMAIN context[Len(context)] THEN context[Len(context)][name]
    ELSE Lookup(context, name)

\* self._context[instance_name]
ContextValue(name) == Lookup(context, name)

\* instance_name in self._context
InContext(name) == Has(context, name)

\* a lookup that never finds a name in the cache
InCacheNever(name) == FALSE

\* instance_name in self._instances_by_name
InCache(name) == name \in DOMAIN dicts[instances_by_name]

\* _Stack.peek
Peek(stack) == stack[Len(stack)]

\* a new cache seeded with the cache the engine used last
EnclosingCacheStale ==
    IF instances_by_name # 0 THEN dicts[instances_by_name]
    ELSE dicts[Peek(instances_by_name_stack)]

\* self._instances_by_name_stack.peek().copy(): the content of the new cache
EnclosingCache == dicts[Peek(instances_by_name_stack)]

Idle == \A t \in Tasks : ctl[t] = <<>>

\* several callers share the engine
Concurrent == Cardinality(Tasks) > 1

\* ------------------------------------------------------------------ actions

\* the caller overrides bindings: registry.add(bindings), and builds through the
\* registry it got from then on
add ==
    /\ running = 0
    /\ Idle
    /\ \E bindings \in Overlays :
          /\ \A i \in 1..Len(context) : context[i] # bindings
          /\ context' = Add(context, bindings)
    /\ UNCHANGED <<instances_by_name, instances_by_name_stack, exit_stack,
                   instantiation_stack, dicts, exit_stacks, awaited, nextId, ctl, ret,
                   running, ncalls, history>>

\* the caller: async with engine.inject(*targets) as ...
Caller(t) ==
    /\ running = 0
    /\ ctl[t] = <<>>
    /\ ncalls[t] < IF Concurrent THEN MaxConcurrentCalls ELSE MaxCalls
    /\ \E targets \in IF Concurrent THEN ConcurrentTargets ELSE TargetPool(context) :
          ctl' = [ctl EXCEPT ![t] = <<InjectFrame(targets, FALSE)>>]
    /\ ncalls' = [ncalls EXCEPT ![t] = @ + 1]
    /\ running' = t
    /\ UNCHANGED <<engine, ret, history>>

\* inject, to its first call: a fresh exit stack, a copy of the innermost
\* cache, pushed for the time of the block
inject(t) ==
    /\ At(t, "inject")
    /\ Top(t).pc = "start"
    /\ LET es      == Len(exit_stacks) + 1
           d       == Len(dicts) + 1
           targets == Top(t).targets
           me      == [Top(t) EXCEPT !.pc = "building", !.es = es, !.cache = d,
                                     !.firstId = nextId]
       IN  /\ exit_stacks' = Append(exit_stacks, <<>>)
           /\ exit_stack' = es
           /\ dicts' = Append(dicts, EnclosingCache)
           /\ instances_by_name' = d
           /\ instances_by_name_stack' = Append(instances_by_name_stack, d)
           /\ ctl' = Replace(t, <<me, IF Len(targets) = 1 THEN InstanceFrame(targets[1])
                                      ELSE TupleFrame(targets)>>)
    /\ ret' = [ret EXCEPT ![t] = NoRet]
    /\ running' = t
    /\ UNCHANGED <<context, instantiation_stack, awaited, nextId, ncalls, history>>

build_tuple(t) ==
    /\ At(t, "_build_tuple")
    /\ ret[t].k # "exc"
    /\ LET instances == IF ret[t].k = "val" THEN Append(Top(t).instances, ret[t].v)
                        ELSE Top(t).instances
           i         == Len(instances) + 1
           me        == [Top(t) EXCEPT !.instances = instances]
       IN  IF i <= Len(Top(t).targets)
           THEN /\ ctl' = Replace(t, <<me, InstanceFrame(Top(t).targets[i])>>)
                /\ ret' = [ret EXCEPT ![t] = NoRet]
           ELSE /\ ctl' = Replace(t, <<>>)
                /\ ret' = [ret EXCEPT ![t] = Val([k |-> "tuple", items |-> instances])]
    /\ running' = t
    /\ UNCHANGED <<engine, ncalls, history>>

build_instance(t) ==
    /\ At(t, "_build_instance")
    /\ LET x == Top(t).target
       IN  IF x.k = "str"
           THEN /\ ctl' = Replace(t, <<NameFrame(x.v)>>)
                /\ ret' = [ret EXCEPT ![t] = NoRet]
           ELSE IF x.k = "fn"
           THEN /\ ctl' = Replace(t, <<FactoryFrame(x.f, NoName)>>)
                /\ ret' = [ret EXCEPT ![t] = NoRet]
           ELSE /\ ctl' = Replace(t, <<>>)
                /\ ret' = [ret EXCEPT ![t] = Exc(JunkieError("Unknown type"))]
    /\ running' = t
    /\ UNCHANGED <<engine, ncalls, history>>

build_by_instance_name(t) ==
    /\ At(t, "_build_by_instance_name")
    /\ LET name  == Top(t).name
           cache == dicts[instances_by_name]
           log(how, r) == Append(lookups, [name |-> name, how |-> how, r |-> r,
                                           task |-> t, build |-> CurBuild(t),
                                           dict |-> instances_by_name,
                                           cached |-> name \in DOMAIN cache,
                                           bound |-> Has(context, name)])
       IN  IF InCache(name)
           THEN LET r == Await(cache[name], awaited)
                IN  /\ ctl' = Replace(t, <<>>)
                    /\ ret' = [ret EXCEPT ![t] = r]
                    /\ awaited' = IF cache[name].k = "coro" THEN awaited \cup {cache[name].id}
                                  ELSE awaited
                    /\ lookups' = log("cache", r)
           ELSE IF InContext(name)
           THEN LET value == ContextValue(name)
                IN  IF value.k = "fn"
                    THEN /\ ctl' = Replace(t, <<FactoryFrame(value.f, name)>>)
                         /\ ret' = [ret EXCEPT ![t] = NoRet]
                         /\ UNCHANGED <<awaited, lookups>>
                    ELSE /\ ctl' = Replace(t, <<>>)
                         /\ ret' = [ret EXCEPT ![t] = Val(value)]
                         /\ lookups' = log("context", Val(value))
                         /\ UNCHANGED awaited
           ELSE /\ ctl' = Replace(t, <<>>)
                /\ ret' = [ret EXCEPT ![t] = Exc(JunkieError("Unable to find"))]
                /\ lookups' = log("unknown", Exc(JunkieError("Unable to find")))
                /\ UNCHANGED awaited
    /\ running' = t
    /\ UNCHANGED <<context, instances_by_name, instances_by_name_stack, exit_stack,
                   instantiation_stack, dicts, exit_stacks, nextId, ncalls, calls,
                   entered, released, outcomes>>

\* _build_by_factory_function, to the call of the factory
build_by_factory_function(t) ==
    /\ At(t, "_build_by_factory_function")
    /\ Top(t).pc = "start"
    /\ LET f == Top(t).f
       IN  IF f \in BUILTINS
           THEN /\ ctl' = Replace(t, <<>>)
                /\ ret' = [ret EXCEPT ![t] = Exc(JunkieError("builtin type is missing"))]
                /\ UNCHANGED instantiation_stack
           ELSE IF Contains(instantiation_stack, f)
           THEN /\ ctl' = Replace(t, <<>>)
                /\ ret' = [ret EXCEPT ![t] = Exc(JunkieError("Dependency cycle detected"))]
                /\ UNCHANGED instantiation_stack
           ELSE /\ instantiation_stack' = Append(instantiation_stack, f)
                /\ ctl' = Replace(t, <<[Top(t) EXCEPT !.pc = "called"],
                                       CallFrame(f, Top(t).name)>>)
                /\ ret' = [ret EXCEPT ![t] = NoRet]
    /\ running' = t
    /\ UNCHANGED <<context, instances_by_name, instances_by_name_stack, exit_stack, dicts,
                   exit_stacks, awaited, nextId, ncalls, history>>

\* a push_temporarily that leaves the item on the stack
PopNever(stack) == stack

\* push_temporarily, when its block ends: finally: self.pop()
PopOnReturn(stack) == Butlast(stack)

\* _build_by_factory_function, from the factory's return: the instance is
\* cached under its name and the factory leaves the instantiation stack
build_by_factory_function_return(t) ==
    /\ At(t, "_build_by_factory_function")
    /\ Top(t).pc = "called"
    /\ ret[t].k = "val"
    /\ LET name == Top(t).name
       IN  /\ dicts' = IF name # NoName
                       THEN [dicts EXCEPT ![instances_by_name] = Put(@, name, ret[t].v)]
                       ELSE dicts
           /\ lookups' = IF name # NoName
                         THEN Append(lookups, [name |-> name, how |-> "factory", r |-> ret[t],
                                               task |-> t, build |-> CurBuild(t),
                                               dict |-> instances_by_name,
                                               cached |-> FALSE,
                                               bound |-> Has(context, name)])
                         ELSE lookups
    /\ instantiation_stack' = PopOnReturn(instantiation_stack)
    /\ ctl' = Replace(t, <<>>)
    /\ running' = t
    /\ UNCHANGED <<context, instances_by_name, instances_by_name_stack, exit_stack,
                   exit_stacks, awaited, nextId, ret, ncalls, calls, entered, released,
                   outcomes>>

\* isinstance(annotation, Callable) and annotation != inspect.Parameter.empty
CallableAnnotation(ann) == ann \in FactoryIds \cup BUILTINS

\* the value built for a parameter goes where the parameter's kind says
Place(fr, p, value) ==
    LET item == [n |-> p.name, v |-> value]
    IN  IF p.kind = PO
        THEN [fr EXCEPT !.positional_params = Append(@, item)]
        ELSE IF p.kind = PK
        THEN IF fr.positional_params_finished
             THEN [fr EXCEPT !.keyword_params = Append(@, item)]
             ELSE [fr EXCEPT !.positional_params = Append(@, item)]
        ELSE IF p.kind = VP
        THEN [fr EXCEPT !.args = value]
        ELSE IF p.kind = KO
        THEN [fr EXCEPT !.keyword_params = Append(@, item)]
        ELSE [fr EXCEPT !.kwargs = value]

\* _build_parameters: one parameter of the signature per step
build_parameters(t) ==
    /\ At(t, "_build_parameters")
    /\ ret[t].k # "exc"
    /\ LET fr     == Top(t)
           params == Factory(fr.f).params
       IN  IF fr.waiting
           THEN \* the parameter's value is built
                /\ ctl' = Replace(t, <<[Place(fr, params[fr.i], ret[t].v)
                                          EXCEPT !.i = fr.i + 1, !.waiting = FALSE]>>)
                /\ ret' = [ret EXCEPT ![t] = NoRet]
           ELSE IF ~Factory(fr.f).sig
           THEN /\ ctl' = Replace(t, <<>>)
                /\ ret' = [ret EXCEPT ![t] = Exc(JunkieError("Unable to inspect signature"))]
           ELSE IF fr.i > Len(params)
           THEN /\ ctl' = Replace(t, <<>>)
                /\ ret' = [ret EXCEPT ![t] =
                             Val([k |-> "params", positional_params |-> fr.positional_params,
                                  args |-> fr.args, keyword_params |-> fr.keyword_params,
                                  kwargs |-> fr.kwargs])]
           ELSE LET p == params[fr.i]
                IN  IF InCache(p.name) \/ InContext(p.name)
                    THEN /\ ctl' = Replace(t, <<[fr EXCEPT !.waiting = TRUE], NameFrame(p.name)>>)
                         /\ ret' = [ret EXCEPT ![t] = NoRet]
                    ELSE IF p.kind \in {VP, VK}
                    THEN /\ ctl' = Replace(t, <<[fr EXCEPT !.i = fr.i + 1]>>)
                         /\ ret' = [ret EXCEPT ![t] = NoRet]
                    ELSE IF p.dflt
                    THEN /\ ctl' = Replace(t, <<[fr EXCEPT !.i = fr.i + 1,
                                                          !.positional_params_finished = TRUE]>>)
                         /\ ret' = [ret EXCEPT ![t] = NoRet]
                    ELSE IF CallableAnnotation(p.ann)
                    THEN /\ ctl' = Replace(t, <<[fr EXCEPT !.waiting = TRUE],
                                                FactoryFrame(p.ann, p.name)>>)
                         /\ ret' = [ret EXCEPT ![t] = NoRet]
                    ELSE /\ ctl' = Replace(t, <<>>)
                         /\ ret' = [ret EXCEPT ![t] = Exc(JunkieError("Unable to find for"))]
    /\ running' = t
    /\ UNCHANGED <<engine, ncalls, history>>

\* _call_factory_function, to its call of _build_parameters
call_factory_function(t) ==
    /\ At(t, "_call_factory_function")
    /\ Top(t).pc = "start"
    /\ ctl' = Replace(t, <<[Top(t) EXCEPT !.pc = "params"], ParamsFrame(Top(t).f)>>)
    /\ ret' = [ret EXCEPT ![t] = NoRet]
    /\ running' = t
    /\ UNCHANGED <<engine, ncalls, history>>

\* _call_factory_function: the call of the factory with the built parameters,
\* and the start of the enter step when the instance has one
call_factory_function_call(t) ==
    /\ At(t, "_call_factory_function")
    /\ Top(t).pc = "params"
    /\ ret[t].k = "val"
    /\ LET f        == Top(t).f
           built    == ret[t].v
           kp       == built.keyword_params
           spreads  == /\ built.args.k = "seq"
                       /\ built.kwargs.k = "map"
                       /\ Keys(kp) \cap DOMAIN built.kwargs.m = {}
           pos      == Values(built.positional_params) \o built.args.items
           kw       == [x \in Keys(kp) \cup DOMAIN built.kwargs.m |->
                          IF x \in Keys(kp) THEN Get(kp, x) ELSE built.kwargs.m[x]]
           bound    == Bind(Factory(f).params, pos, kw)
           instance == Product(f, nextId)
       IN  IF ~spreads \/ ~bound.ok
           THEN /\ ctl' = Replace(t, <<>>)
                /\ ret' = [ret EXCEPT ![t] = Exc(Err("TypeError", "bad call", <<>>))]
                /\ UNCHANGED <<nextId, calls>>
           ELSE /\ calls' = Append(calls, [f |-> f, name |-> Top(t).name,
                                           positional_params |-> built.positional_params,
                                           keyword_params |-> kp, b |-> bound.b,
                                           id |-> nextId, task |-> t, build |-> CurBuild(t),
                                           layers |-> Len(context),
                                           star |-> bound.star, dstar |-> bound.dstar])
                /\ nextId' = nextId + 1
                /\ IF Factory(f).raises
                   THEN /\ ctl' = Replace(t, <<>>)
                        /\ ret' = [ret EXCEPT ![t] = Exc(Err("FactoryError", f, <<>>))]
                   ELSE IF HasAenter(instance)
                   THEN /\ ctl' = Replace(t, <<[Top(t) EXCEPT !.pc = "entering",
                                                              !.es = exit_stack,
                                                              !.cm = instance],
                                               EnterFrame(instance)>>)
                        /\ ret' = [ret EXCEPT ![t] = NoRet]
                   ELSE /\ ctl' = Replace(t, <<>>)
                        /\ ret' = [ret EXCEPT ![t] = Val(instance)]
    /\ running' = t
    /\ UNCHANGED <<context, instances_by_name, instances_by_name_stack, exit_stack,
                   instantiation_stack, dicts, exit_stacks, awaited, ncalls, lookups,
                   entered, released, outcomes>>

\* the enter step of a resource begins; it may suspend, and it may open a
\* build of its own on the engine
aenter(t) ==
    /\ At(t, "__aenter__")
    /\ Top(t).pc = "start"
    /\ LET nested == Factory(Top(t).cm.f).nested
       IN  ctl' = IF nested = NoName
                  THEN Replace(t, <<[Top(t) EXCEPT !.pc = "body"]>>)
                  ELSE Replace(t, <<[Top(t) EXCEPT !.pc = "body"],
                                    InjectFrame(<<Name(nested)>>, TRUE)>>)
    /\ ret' = [ret EXCEPT ![t] = NoRet]
    /\ running' = 0
    /\ UNCHANGED <<engine, ncalls, history>>

\* the enter step yields
aenter_return(t) ==
    /\ At(t, "__aenter__")
    /\ Top(t).pc = "body"
    /\ ret[t].k # "exc"
    /\ ctl' = Replace(t, <<>>)
    /\ ret' = [ret EXCEPT ![t] = IF EnterRaises(Top(t).cm.f)
                                  THEN Exc(Err("EnterError", Top(t).cm.f, <<>>))
                                  ELSE Val(Yielded(Top(t).cm))]
    /\ running' = t
    /\ UNCHANGED <<engine, ncalls, history>>

\* _call_factory_function, from the enter step's return: enter_async_context
\* registers the resource with the exit stack it was called on and the
\* yielded value replaces the instance
call_factory_function_entered(t) ==
    /\ At(t, "_call_factory_function")
    /\ Top(t).pc = "entering"
    /\ ret[t].k = "val"
    /\ exit_stacks' = [exit_stacks EXCEPT ![Top(t).es] = Append(@, Top(t).cm)]
    /\ entered' = Append(entered, [id |-> Top(t).cm.id, f |-> Top(t).f, name |-> Top(t).name,
                                   stack |-> Top(t).es, build |-> CurBuild(t), task |-> t,
                                   instance |-> ret[t].v])
    /\ ctl' = Replace(t, <<>>)
    /\ running' = t
    /\ UNCHANGED <<context, instances_by_name, instances_by_name_stack, exit_stack,
                   instantiation_stack, dicts, awaited, nextId, ret, ncalls, calls, lookups,
                   released, outcomes>>

\* inject yields what it built: the caller's block runs
inject_yield(t) ==
    /\ At(t, "inject")
    /\ Top(t).pc = "building"
    /\ ret[t].k = "val"
    /\ ctl' = Replace(t, <<[Top(t) EXCEPT !.pc = "yielded", !.val = ret[t].v]>>)
    /\ ret' = [ret EXCEPT ![t] = NoRet]
    /\ running' = IF Top(t).inner THEN t ELSE 0
    /\ UNCHANGED <<engine, ncalls, history>>

\* the caller's block ends, normally or with an error: push_temporarily pops
\* the stack of caches, and the exit stack starts to close
block(t) ==
    /\ At(t, "inject")
    /\ Top(t).pc = "yielded"
    /\ \E error \in IF Top(t).inner THEN {FALSE} ELSE BOOLEAN :
          LET e == IF error THEN Exc(Err("BlockError", "", <<>>)) ELSE NoRet
          IN  ctl' = Replace(t, <<[Top(t) EXCEPT !.pc = "closing", !.exc = e,
                                                 !.raised = e]>>)
    /\ instances_by_name_stack' = Butlast(instances_by_name_stack)
    /\ running' = t
    /\ UNCHANGED <<context, instances_by_name, exit_stack, instantiation_stack, dicts,
                   exit_stacks, awaited, nextId, ret, ncalls, history>>

\* AsyncExitStack.__aexit__: the resource registered last is released; when
\* its exit step handles the pending error, the stack goes on without it
release(t) ==
    /\ At(t, "inject")
    /\ Top(t).pc = "closing"
    /\ exit_stacks[Top(t).es] # <<>>
    /\ LET cbs == exit_stacks[Top(t).es]
           cb  == cbs[Len(cbs)]
       IN  /\ exit_stacks' = [exit_stacks EXCEPT ![Top(t).es] = Butlast(cbs)]
           /\ released' = Append(released, [id |-> cb.id, by |-> Top(t).es, task |-> t])
           /\ ctl' = IF Suppresses(cb.f) /\ Top(t).exc.k = "exc"
                      THEN Replace(t, <<[Top(t) EXCEPT !.exc = NoRet]>>)
                      ELSE ctl
    /\ running' = 0
    /\ UNCHANGED <<context, instances_by_name, instances_by_name_stack, exit_stack,
                   instantiation_stack, dicts, awaited, nextId, ret, ncalls, calls,
                   lookups, entered, outcomes>>

\* what the caller of inject gets when the exit stack has closed: the pending
\* error, if one is left; when no error is left and inject never yielded,
\* asynccontextmanager reports that the generator did not yield
Observed(fr) ==
    IF fr.exc.k = "exc" THEN fr.exc
    ELSE IF fr.val = None THEN Exc(Err("RuntimeError", "generator didn't yield", <<>>))
    ELSE NoRet

\* the exit stack is closed: inject ends, and what it ends with is what
\* whoever opened it sees
inject_exit(t) ==
    /\ At(t, "inject")
    /\ Top(t).pc = "closing"
    /\ exit_stacks[Top(t).es] = <<>>
    /\ ctl' = Replace(t, <<>>)
    /\ IF Top(t).inner
       THEN /\ ret' = [ret EXCEPT ![t] = IF Observed(Top(t)).k = "exc" THEN Observed(Top(t))
                                         ELSE Val(None)]
            /\ running' = t
       ELSE /\ ret' = [ret EXCEPT ![t] = NoRet]
            /\ running' = 0
    /\ outcomes' = Append(outcomes, [task |-> t, build |-> Top(t).es, inner |-> Top(t).inner,
                                     targets |-> Top(t).targets, val |-> Top(t).val,
                                     exc |-> Observed(Top(t)), raised |-> Top(t).raised,
                                     firstId |-> Top(t).firstId,
                                     lastId |-> nextId - 1, layers |-> Len(context)])
    /\ UNCHANGED <<engine, ncalls, calls, lookups, entered, released>>

\* a push_temporarily that pops only when its block ends normally
PopOnlyOnReturn(stack) == stack

\* push_temporarily, when its block raises: finally: self.pop()
PopOnError(stack) == Butlast(stack)

\* an exception leaves a frame: the context managers the frame is in run
\* their exits
unwind(t) ==
    /\ running \in {0, t}
    /\ ctl[t] # <<>>
    /\ ret[t].k = "exc"
    /\ LET fr == Top(t)
       IN  IF fr.fn = "inject"
           THEN /\ ctl' = Replace(t, <<[fr EXCEPT !.pc = "closing", !.exc = ret[t],
                                                  !.raised = ret[t]]>>)
                /\ ret' = [ret EXCEPT ![t] = NoRet]
                /\ instances_by_name_stack' = Butlast(instances_by_name_stack)
                /\ UNCHANGED instantiation_stack
           ELSE IF fr.fn = "_build_by_factory_function" /\ fr.pc = "called"
           THEN /\ ctl' = Replace(t, <<>>)
                /\ instantiation_stack' = PopOnError(instantiation_stack)
                /\ UNCHANGED <<ret, instances_by_name_stack>>
           ELSE /\ ctl' = Replace(t, <<>>)
                /\ UNCHANGED <<ret, instances_by_name_stack, instantiation_stack>>
    /\ running' = t
    /\ UNCHANGED <<context, instances_by_name, exit_stack, dicts, exit_stacks, awaited,
                   nextId, ncalls, history>>

Next ==
    \/ add
    \/ \E t \in Tasks : Caller(t)
    \/ \E t \in Tasks : inject(t)
    \/ \E t \in Tasks : build_tuple(t)
    \/ \E t \in Tasks : build_instance(t)
    \/ \E t \in Tasks : build_by_instance_name(t)
    \/ \E t \in Tasks : build_by_factory_function(t)
    \/ \E t \in Tasks : build_by_factory_function_return(t)
    \/ \E t \in Tasks : build_parameters(t)
    \/ \E t \in Tasks : call_factory_function(t)
    \/ \E t \in Tasks : call_factory_function_call(t)
    \/ \E t \in Tasks : aenter(t)
    \/ \E t \in Tasks : aenter_return(t)
    \/ \E t \in Tasks : call_factory_function_entered(t)
    \/ \E t \in Tasks : inject_yield(t)
    \/ \E t \in Tasks : block(t)
    \/ \E t \in Tasks : release(t)
    \/ \E t \in Tasks : inject_exit(t)
    \/ \E t \in Tasks : unwind(t)

Spec == Init /\ [][Next]_vars

\* two tasks that call inject on one engine
InitConcurrent == InitEngine /\ InitTasks({1, 2})

SpecConcurrent == InitConcurrent /\ [][Next]_vars

\* ------------------------------------------------------------------- claims

\* the values a build handles: what the caches hold, what factories were
\* called with, what the builds yielded
Items(v) == IF v.k = "tuple" THEN SeqToSet(v.items) ELSE {v}

Handled ==
    UNION {{dicts[d][n] : n \in DOMAIN dicts[d]} : d \in DOMAIN dicts}
    \cup UNION {{calls[i].b[p] : p \in DOMAIN calls[i].b} : i \in DOMAIN calls}
    \cup UNION {Items(outcomes[i].val) : i \in DOMAIN outcomes}
    \cup {lookups[i].r.v : i \in {j \in DOMAIN lookups : lookups[j].r.k = "val"}}

\* the yielded value stands for a resource wherever a value is handled, and
\* an object without an enter step stands for itself
Replaced ==
    /\ \A v \in Handled :
          /\ v.k # "cm"
          /\ v.k = "yielded" => Factory(v.f).product = "cm"
    /\ \A i \in DOMAIN lookups :
          lookups[i].how = "factory" =>
             /\ lookups[i].r.v.k \in {"plain", "coro", "yielded"}
             /\ dicts[lookups[i].dict][lookups[i].name] = lookups[i].r.v
    /\ \A i \in DOMAIN entered :
          /\ Factory(entered[i].f).product = "cm"
          /\ entered[i].instance = Yielded(Product(entered[i].f, entered[i].id))
    /\ \A e \in DOMAIN exit_stacks : \A i \in DOMAIN exit_stacks[e] :
          Factory(exit_stacks[e][i].f).product = "cm"

\* C1: a product that has an enter step is entered through the lifecycle
\* stack of the build it is built in, and the value the enter step yields
\* replaces it: that value is returned, cached under the name and received by
\* dependents; a product without an enter step is used as it is and nothing
\* is pushed on the lifecycle stack for it.
C1_EnteredThroughBuildStack ==
    /\ Replaced
    /\ \A i \in DOMAIN entered : entered[i].stack = entered[i].build

\* the parameters of a call that the binder built a value for
Resolved(c) == Keys(c.positional_params) \cup Keys(c.keyword_params)

ResolvedValue(c, name) ==
    IF name \in Keys(c.positional_params) THEN Get(c.positional_params, name)
    ELSE Get(c.keyword_params, name)

\* the place of the first defaulted parameter that was left unresolved
\* (past the end of the signature when there is none)
FirstUnset(c) ==
    LET params == Factory(c.f).params
        unset  == {j \in 1..Len(params) : params[j].dflt /\ params[j].name \notin Resolved(c)}
    IN  IF unset = {} THEN Len(params) + 1
        ELSE CHOOSE j \in unset : \A m \in unset : j <= m

\* the names of the parameters of the given places, in declaration order
NamesAt(params, places) ==
    LET names == [j \in 1..Len(params) |-> params[j].name]
    IN  SelectSeqBy(names, {params[j].name : j \in places})

CalledAsDeclared(c) ==
    LET params == Factory(c.f).params
        named  == {j \in 1..Len(params) : params[j].kind \in {PO, PK, KO}}
        before == {j \in named : /\ j < FirstUnset(c)
                                 /\ params[j].kind \in {PO, PK}
                                 /\ params[j].name \in Resolved(c)}
    IN  /\ \A j \in named :
              LET q == params[j]
              IN  /\ q.name \in Resolved(c) => c.b[q.name] = ResolvedValue(c, q.name)
                  /\ q.name \notin Resolved(c) => c.b[q.name] = Default(q.name)
                  /\ q.name \in Resolved(c) /\ q.kind = KO => q.name \in Keys(c.keyword_params)
                  /\ q.name \in Resolved(c) /\ q.kind = PK /\ j > FirstUnset(c)
                        => q.name \in Keys(c.keyword_params)
        /\ \A j \in before : params[j].name \in Keys(c.positional_params)
        /\ SelectSeqBy([j \in 1..Len(c.positional_params) |-> c.positional_params[j].n],
                       {params[j].name : j \in before})
              = NamesAt(params, before)

\* C2: for every factory all of whose parameters resolve, the factory is
\* called with the resolved arguments in declared order and kind: resolved
\* parameters before the first unresolved defaulted one positionally in
\* declaration order, resolved positional-or-keyword parameters after it and
\* keyword-only parameters by keyword, and an unresolved defaulted parameter
\* is left unset so that its default applies.
C2_CalledWithResolvedArguments == \A i \in DOMAIN calls : CalledAsDeclared(calls[i])

\* the registry a call was made under: overrides only ever add layers
RegistryOf(c) == SubSeq(context, Len(context) - c.layers + 1, Len(context))

\* the value is what the binding stands for: the literal, or an instance
\* that the bound factory produced
Matches(v, binding) ==
    IF binding.k = "lit" THEN v = binding
    ELSE v.k \in {"plain", "coro", "yielded", "result"} /\ v.f = binding.f

ArgumentItems(c) ==
    SeqToSet(c.positional_params) \cup SeqToSet(c.keyword_params)

\* C3: after registry.add({name: newValue}), every factory built afterwards
\* that depends on the name receives the new value (whether the factory was
\* bound before the override or added with it, requested by name or passed
\* as a callable), and a name that was not overridden is still resolved from
\* the earlier bindings.
C3_OverrideReachesDependents ==
    \A i \in DOMAIN calls :
       calls[i].layers > 1 =>
          LET overlay  == RegistryOf(calls[i])[1]
              receiver == Tail(RegistryOf(calls[i]))
          IN  \A a \in ArgumentItems(calls[i]) :
                 /\ a.n \in DOMAIN overlay => Matches(a.v, overlay[a.n])
                 /\ a.n \notin DOMAIN overlay /\ Has(receiver, a.n)
                       => Matches(a.v, Lookup(receiver, a.n))

C3_Witness ==
    /\ context = Add(TestContext, OverlayTest)
    /\ \E i \in DOMAIN calls :
          /\ calls[i].f = "fText" /\ calls[i].layers = 2
          /\ calls[i].b["suffix"] = Lit("xyz") /\ calls[i].b["prefix"] = Lit("abc")
    /\ \E i \in DOMAIN calls :
          /\ calls[i].f = "Class" /\ calls[i].name = NoName /\ calls[i].layers = 2
          /\ calls[i].b["suffix"] = Lit("xyz") /\ calls[i].b["prefix"] = Lit("abc")

\* C4: within one build call, once a name bound to a factory has been
\* constructed, every later lookup of the name in that build succeeds and
\* returns the instance the first lookup returned.
C4_SingletonPerBuild ==
    \A i, j \in DOMAIN lookups :
       /\ i < j
       /\ lookups[i].how = "factory"
       /\ lookups[j].name = lookups[i].name
       /\ lookups[j].build = lookups[i].build
       => lookups[j].r = lookups[i].r

\* the resources entered on behalf of build b, in the order of their entering
RECURSIVE EnteredIn(_, _)
EnteredIn(log, b) ==
    IF log = <<>> THEN <<>>
    ELSE IF Head(log).build = b THEN <<Head(log).id>> \o EnteredIn(Tail(log), b)
         ELSE EnteredIn(Tail(log), b)

\* the resources that the closing of build b released, in the order of their release
RECURSIVE ReleasedBy(_, _)
ReleasedBy(log, b) ==
    IF log = <<>> THEN <<>>
    ELSE IF Head(log).by = b THEN <<Head(log).id>> \o ReleasedBy(Tail(log), b)
         ELSE ReleasedBy(Tail(log), b)

\* C5: when a build scope has ended, normally or with an error raised
\* mid-build, the resources entered during the build have been released in
\* exactly the reverse of the order they were acquired in.
C5_ReleasedInReverseOrder ==
    \A i \in DOMAIN outcomes :
       ReleasedBy(released, outcomes[i].build) = Reverse(EnteredIn(entered, outcomes[i].build))

\* C6: when the caller observes the outcome of a build (normal end of its
\* block, an error during resolution or an error in its block), every
\* resource entered on behalf of that build has been released exactly once,
\* also when a factory opened and closed a nested build before further
\* resources were acquired.
C6_NoLeak ==
    \A i \in DOMAIN outcomes : \A j \in DOMAIN entered :
       entered[j].build = outcomes[i].build =>
          Cardinality({m \in DOMAIN released : released[m].id = entered[j].id}) = 1

\* the factories whose instances factory f asks for, under a registry: what
\* its parameters resolve to by name, or else by a callable annotation
DependsOn(f, registry) ==
    IF f \notin FactoryIds THEN {}
    ELSE LET params == Factory(f).params
             via(q) == IF Has(registry, q.name)
                       THEN IF Lookup(registry, q.name).k = "fn"
                            THEN {Lookup(registry, q.name).f} ELSE {}
                       ELSE IF q.kind \in {VP, VK} \/ q.dflt THEN {}
                       ELSE IF CallableAnnotation(q.ann) THEN {q.ann}
                       ELSE {}
         IN  UNION {via(params[j]) : j \in 1..Len(params)}

RECURSIVE ReachableFrom(_, _)
ReachableFrom(fs, registry) ==
    LET more == fs \cup UNION {DependsOn(f, registry) : f \in fs}
    IN  IF more = fs THEN fs ELSE ReachableFrom(more, registry)

DependsOnItself(f, registry) == f \in ReachableFrom(DependsOn(f, registry), registry)

TargetFactories(targets, registry) ==
    {targets[j].f : j \in {m \in 1..Len(targets) : targets[m].k = "fn"}}
    \cup {Lookup(registry, targets[j].v).f :
            j \in {m \in 1..Len(targets) :
                     /\ targets[m].k = "str"
                     /\ Has(registry, targets[m].v)
                     /\ Lookup(registry, targets[m].v).k = "fn"}}

Cyclic(targets, registry) ==
    \E f \in ReachableFrom(TargetFactories(targets, registry), registry) :
       DependsOnItself(f, registry)

\* the stack is a chain of dependencies from a target to a factory one of
\* whose dependencies is in the stack already
FullChain(stack, targets, registry) ==
    /\ stack # <<>>
    /\ stack[1] \in TargetFactories(targets, registry)
    /\ \A j \in 1..(Len(stack) - 1) : stack[j + 1] \in DependsOn(stack[j], registry)
    /\ \E f \in DependsOn(stack[Len(stack)], registry) : Contains(stack, f)

NoDuplicates(stack) == \A i, j \in DOMAIN stack : stack[i] = stack[j] => i = j

\* C7: when a factory reachable from the build target depends on itself,
\* directly or through its parameters, the build fails with the
\* dependency-cycle error, no factory is entered a second time while it is
\* under construction, and the instantiation stack the error carries is the
\* full chain from the target to the factory that reappeared.
C7_CycleIsReported ==
    /\ NoDuplicates(instantiation_stack)
    /\ \A i \in DOMAIN outcomes :
          LET o == outcomes[i]
          IN  ~o.inner /\ Cyclic(o.targets, RegistryOf(o)) =>
                 /\ o.exc.k = "exc"
                 /\ o.exc.e.type = "JunkieError"
                 /\ o.exc.e.what = "Dependency cycle detected"
                 /\ FullChain(o.exc.e.stack, o.targets, RegistryOf(o))

Unknown(l) == l.how = "unknown"

\* a lookup _build_by_instance_name made, not a parameter built from its
\* annotation
ByName(l) == l.how # "factory" \/ l.bound

\* C8: a name that is neither in the cache the build reads nor in the
\* registry fails with the unknown-dependency error, no factory is invoked
\* for it and the cache gets no entry for it; a name that is in either is
\* never reported as unknown.
C8_UnknownDependency ==
    \A i \in DOMAIN lookups :
       LET l == lookups[i]
       IN  /\ ByName(l) /\ ~l.cached /\ ~l.bound => Unknown(l)
           /\ Unknown(l) =>
                 /\ ~l.cached /\ ~l.bound
                 /\ l.r.k = "exc"
                 /\ l.r.e.type = "JunkieError"
                 /\ l.r.e.what = "Unable to find"
                 /\ l.name \notin DOMAIN dicts[l.dict]
                 /\ \A j \in DOMAIN calls :
                       ~(calls[j].name = l.name /\ calls[j].build = l.build)

\* a build of a name nobody bound has failed with the unknown-dependency error
C8_Witness ==
    \E i \in DOMAIN lookups : \E j \in DOMAIN outcomes :
       /\ Unknown(lookups[i])
       /\ outcomes[j].build = lookups[i].build
       /\ outcomes[j].exc.k = "exc"
       /\ outcomes[j].exc.e.what = "Unable to find"

\* the top-level build task t has open, as its inject frame
TopLevel(t) == ctl[t][1]

Opened(t) == ctl[t] # <<>> /\ ~TopLevel(t).inner /\ TopLevel(t).cache # 0

\* the names a build requests that the registry binds to a factory
FactoryBound(o) ==
    {o.targets[j].v : j \in {m \in 1..Len(o.targets) :
                                /\ o.targets[m].k = "str"
                                /\ Has(RegistryOf(o), o.targets[m].v)
                                /\ Lookup(RegistryOf(o), o.targets[m].v).k = "fn"}}

CallsFor(name, build) ==
    {j \in DOMAIN calls : calls[j].name = name /\ calls[j].build = build}

\* C9: no cross-call caching. The cache of a top-level build, from its start
\* on, holds no instance constructed before the build began; and of two
\* top-level builds run one after the other that request the same
\* factory-bound name, each invokes the factory at most once, exactly once
\* when the build succeeds, and the two invocations are distinct.
C9_NoCrossCallCaching ==
    /\ \A t \in Tasks :
          Opened(t) =>
             \A d \in {TopLevel(t).cache, instances_by_name} :
                \A n \in DOMAIN dicts[d] : dicts[d][n].id >= TopLevel(t).firstId
    /\ \A i, j \in DOMAIN outcomes :
          LET a == outcomes[i]
              b == outcomes[j]
          IN  i < j /\ ~a.inner /\ ~b.inner =>
                 \A n \in FactoryBound(a) \cap FactoryBound(b) :
                    /\ Cardinality(CallsFor(n, a.build)) <= 1
                    /\ Cardinality(CallsFor(n, b.build)) <= 1
                    /\ a.exc.k # "exc" => Cardinality(CallsFor(n, a.build)) = 1
                    /\ b.exc.k # "exc" => Cardinality(CallsFor(n, b.build)) = 1
                    /\ CallsFor(n, a.build) \cap CallsFor(n, b.build) = {}

\* two builds of the same factory-bound name, one after the other, both done
C9_Witness ==
    \E i, j \in DOMAIN outcomes :
       /\ i < j
       /\ ~outcomes[i].inner /\ ~outcomes[j].inner
       /\ outcomes[i].exc.k # "exc" /\ outcomes[j].exc.k # "exc"
       /\ FactoryBound(outcomes[i]) \cap FactoryBound(outcomes[j]) # {}
       /\ outcomes[i].val # outcomes[j].val

CycleError(o) == o.exc.k = "exc" /\ o.exc.e.what = "Dependency cycle detected"

\* C10: builds that run as concurrent tasks are independent. A build reports
\* a dependency cycle only for a cycle among its own dependencies, every
\* resource is released by the scope exit of the build that entered it, and
\* when a build's outcome is observed each of its resources has been released
\* once, by that build.
C10_ConcurrentBuildsIndependent ==
    /\ \A i \in DOMAIN outcomes :
          CycleError(outcomes[i]) => Cyclic(outcomes[i].targets, RegistryOf(outcomes[i]))
    /\ \A m \in DOMAIN released : \A j \in DOMAIN entered :
          entered[j].id = released[m].id =>
             /\ released[m].by = entered[j].build
             /\ released[m].task = entered[j].task
    /\ \A i \in DOMAIN outcomes : \A j \in DOMAIN entered :
          entered[j].build = outcomes[i].build =>
             Cardinality({m \in DOMAIN released : released[m].id = entered[j].id}) = 1

\* C11: no error is swallowed. Whatever error a build raised, in a factory,
\* in parameter binding, in a resource's enter step or in the caller's
\* block, is the error the caller of that build observes when the build has
\* closed, and an error raised during resolution means the build never
\* yielded.
C11_NoErrorSwallowed ==
    \A i \in DOMAIN outcomes :
       LET o == outcomes[i]
       IN  o.raised.k = "exc" =>
              /\ o.exc = o.raised
              /\ o.raised.e.type # "BlockError" => o.val = None

\* blocking-mode resolution of a name that is in the cache: the cached
\* instance is returned
BlockingCached(cache, name) == Val(cache[name])

\* C12: a suspension-mode build has the outcome of the blocking-mode
\* resolution, also when a name is looked up again after it has been cached:
\* every lookup of a cached name returns the cached instance.
C12_SameAsBlocking ==
    \A i \in DOMAIN lookups :
       lookups[i].cached =>
          lookups[i].r = BlockingCached(dicts[lookups[i].dict], lookups[i].name)

Succeeded(o) == o.exc.k # "exc" /\ o.raised.k # "exc"

\* the instances a build's lookups by name returned for a name
InstancesOf(o, name) ==
    {lookups[j].r : j \in {m \in DOMAIN lookups :
                             lookups[m].build = o.build /\ lookups[m].name = name}}

\* C13: the shape of the result follows the shape of the target. A set of
\* names yields a mapping from each name to its instance; a single name or
\* callable yields the instance itself; several targets yield the instances
\* in the order requested.
C13_ResultShape ==
    \A i \in DOMAIN outcomes :
       LET o == outcomes[i]
           n == Len(o.targets)
       IN  /\ n = 1 /\ o.targets[1].k = "set" =>
                 /\ o.exc.k # "exc"
                 /\ o.val.k = "mapping"
                 /\ DOMAIN o.val.m = o.targets[1].v
           /\ n = 1 /\ o.targets[1].k = "str" /\ Succeeded(o) =>
                 Val(o.val) \in InstancesOf(o, o.targets[1].v)
           /\ n = 1 /\ o.targets[1].k = "fn" /\ Succeeded(o) =>
                 o.val.k # "tuple" /\ o.val.f = o.targets[1].f
           /\ n # 1 /\ Succeeded(o) =>
                 /\ o.val.k = "tuple"
                 /\ Len(o.val.items) = n
                 /\ \A j \in 1..n :
                       o.targets[j].k = "str" =>
                          Val(o.val.items[j]) \in InstancesOf(o, o.targets[j].v)

\* the registry the engine was created with: the receiver of every add
Receiver == TestContext

\* C14: registry.add(bindings) does not change the registry it is called on.
\* Every build made through the receiver, before or after add, resolves each
\* name as the receiver's own bindings say: a factory's argument is what the
\* receiver binds to the parameter's name, and a name the receiver does not
\* bind is not found.
C14_AddLeavesReceiver ==
    /\ \A i \in DOMAIN calls : \A a \in ArgumentItems(calls[i]) :
          Has(Receiver, a.n) => Matches(a.v, Lookup(Receiver, a.n))
    /\ \A i \in DOMAIN lookups :
          ByName(lookups[i]) /\ ~lookups[i].cached /\ ~Has(Receiver, lookups[i].name)
             => Unknown(lookups[i])

\* C15: within one build call the factory bound to a name is invoked at most
\* once for that name, however many targets and parameters depend on it.
C15_BuiltOncePerBuild ==
    \A i, j \in DOMAIN calls :
       /\ calls[i].name # NoName
       /\ calls[i].name = calls[j].name
       /\ calls[i].build = calls[j].build
       => i = j

\* the factories whose invocation a task is in, the outermost first
RECURSIVE UnderConstruction(_)
UnderConstruction(frames) ==
    IF frames = <<>> THEN <<>>
    ELSE LET fr == frames[Len(frames)]
         IN  IF fr.fn = "_build_by_factory_function" /\ fr.pc = "called"
             THEN Append(UnderConstruction(Butlast(frames)), fr.f)
             ELSE UnderConstruction(Butlast(frames))

\* C16: in a single-task build no factory occurs twice in the instantiation
\* stack, and the stack holds exactly the factories whose invocation is in
\* progress: whenever an invocation has returned or failed, its push is
\* undone and the stack is what it was before, so the stack is empty when
\* a top-level build has finished or failed.
C16_InstantiationStackScoped ==
    /\ NoDuplicates(instantiation_stack)
    /\ \A t \in Tasks : instantiation_stack = UnderConstruction(ctl[t])

\* a build has failed with a cycle error raised two invocations deep, and
\* the stack is empty again
C16_Witness ==
    /\ Idle
    /\ instantiation_stack = <<>>
    /\ \E i \in DOMAIN outcomes :
          /\ ~outcomes[i].inner
          /\ CycleError(outcomes[i])
          /\ Len(outcomes[i].exc.e.stack) >= 2

\* C17: anonymous builds are never cached. A callable passed as the target
\* and a parameter bound through its callable annotation are invoked without
\* a name: a factory is called under a name only when the registry binds
\* that name, and a cache holds entries only for names the registry binds.
C17_AnonymousNotCached ==
    /\ \A i \in DOMAIN calls :
          calls[i].name # NoName => Has(RegistryOf(calls[i]), calls[i].name)
    /\ \A d \in DOMAIN dicts : \A n \in DOMAIN dicts[d] : Has(context, n)

Collectors(f) ==
    {Factory(f).params[j].name :
       j \in {m \in 1..Len(Factory(f).params) : Factory(f).params[m].kind \in {VP, VK}}}

CollectorNames == UNION {Collectors(f) : f \in FactoryIds}

\* C18: a variadic collector parameter is always skipped, whatever the cache
\* and the registry contain: the factory's call passes nothing to its
\* collectors, and no lookup is made for a collector's name (no target and
\* no other parameter bears such a name).
C18_CollectorsSkipped ==
    /\ \A i \in DOMAIN calls : calls[i].star = <<>> /\ calls[i].dstar = EmptyMap
    /\ \A i \in DOMAIN lookups :
          lookups[i].name \notin CollectorNames

\* the innermost inject a task is in
RECURSIVE Innermost(_)
Innermost(frames) ==
    IF frames[Len(frames)].fn = "inject" THEN frames[Len(frames)]
    ELSE Innermost(Butlast(frames))

\* C19: a nested build is seeded with a copy of the enclosing build's cache
\* and is isolated from it. While a build resolves its targets the cache the
\* engine reads and writes is that build's own: after a nested build has
\* closed, the enclosing build goes on with its own cache, which holds none
\* of the names the nested build constructed.
C19_NestedBuildIsolated ==
    \A t \in Tasks :
       ctl[t] # <<>> /\ Innermost(ctl[t]).pc = "building" =>
          instances_by_name = Innermost(ctl[t]).cache

\* C20: cycle detection has no false positives in a single-task build. A
\* build ends with the dependency-cycle error only when the dependency graph
\* reachable from its targets contains a cycle, also when a dependency is
\* shared, when one factory is bound under several names and when an earlier
\* target of the build already constructed the factory.
C20_NoFalseCycle ==
    \A i \in DOMAIN outcomes :
       LET o == outcomes[i]
       IN  (CycleError(o) \/ (o.raised.k = "exc"
                               /\ o.raised.e.what = "Dependency cycle detected"))
              => Cyclic(o.targets, RegistryOf(o))

\* a build that called one factory twice, under two names, has succeeded
C20_Witness ==
    \E i \in DOMAIN outcomes : \E m, n \in DOMAIN calls :
       /\ Succeeded(outcomes[i])
       /\ m < n
       /\ calls[m].build = outcomes[i].build /\ calls[n].build = outcomes[i].build
       /\ calls[m].f = calls[n].f
       /\ calls[m].name # calls[n].name

====
